---- MODULE Spec2Model ----
(***************************************************************************)
(* A model of PineNode (src/pineNode.js): the resolution-aware node of the *)
(* pine tree.  A tree is a nested record; every bucket of a node is one of *)
(*   [tag |-> "null"]   Unknown       (JavaScript null)                    *)
(*   [tag |-> "false"]  KnownEmpty    (JavaScript false)                   *)
(*   [tag |-> "Node"]   a child PineNode                                   *)
(*   [tag |-> "Leaf"]   a DataNode holding raw entries                     *)
(* The tree shell (GiveNonLeafNode), the leaf (DataNode) and the summary   *)
(* type live in other packages; they are modelled from the interfaces      *)
(* section of the specification.                                           *)
(* Keys and values are 1-based here: bucket i spans [keys[i], keys[i+1]).  *)
(***************************************************************************)
EXTENDS Integers, Sequences, FiniteSets, TLC

VARIABLES tree, root, last, nops

vars == <<tree, root, last, nops>>

(***************************************************************************)
(* Bounds of the model.                                                    *)
(***************************************************************************)
\* number of mutating operations (insert, remove) in one behaviour
MaxOps == 2
\* number of entries in one inserted data list
MaxData == 1
\* number of entries in the data list inserted into a fresh tree
MaxFreshData == 2
\* largest width of a raw entry
MaxEntryLen == 2
\* largest resolution and largest coordinate given to the pure functions
MaxRes == 12
\* largest leafScalingFactor of the handles given to the pure functions
MaxLeafScaling == 3
\* deepest tier given to _getResolutionAtDepth
MaxDepth == 5

(***************************************************************************)
(* Generic helpers.                                                        *)
(***************************************************************************)
Min2(a, b) == IF a <= b THEN a ELSE b

Max2(a, b) == IF a >= b THEN a ELSE b

RECURSIVE Pow(_, _)
Pow(b, n) == IF n <= 0 THEN 1 ELSE b * Pow(b, n - 1)

\* Array.prototype.splice(i, 0, x) with a 1-based position: x becomes s[i]
InsertAt(s, i, x) == SubSeq(s, 1, i - 1) \o <<x>> \o SubSeq(s, i, Len(s))

\* Array.prototype.splice(i, 1) with a 1-based position
RemoveAt(s, i) == SubSeq(s, 1, i - 1) \o SubSeq(s, i + 1, Len(s))

(***************************************************************************)
(* Bucket values and nodes.                                                *)
(***************************************************************************)
Unknown == [tag |-> "null"]

KnownEmpty == [tag |-> "false"]

\* a bucket that JavaScript treats as truthy: a child node or a leaf
Truthy(v) == v.tag \in {"Node", "Leaf"}

NoSummary == [present |-> FALSE, items |-> <<>>]

NoWrapper == [kind |-> "none", start |-> 0, end |-> 0]

Start(n) == n.keys[1]

End(n) == n.keys[Len(n.keys)]

\* a mutant of GetResolutionAtDepth that takes the floor of the scaling
\* factor before raising it to the power
GetResolutionAtDepthFloorFirst(revDepth) ==
  Pow(tree.sfNum \div tree.sfDen, revDepth) * tree.leafScalingFactor

\* resolutionAt(d) = floor(scalingFactor ** d * leafScalingFactor), the
\* scaling factor being the fraction sfNum / sfDen
GetResolutionAtDepth(revDepth) ==
  (Pow(tree.sfNum, revDepth) * tree.leafScalingFactor) \div Pow(tree.sfDen, revDepth)

RECURSIVE CeilLog(_, _)
\* the least d' >= d with leafScalingFactor * scalingFactor^d' >= span, which
\* is ceil((ln span - ln leafScalingFactor) / ln scalingFactor) from d = 0
CeilLog(span, d) ==
  IF tree.leafScalingFactor * Pow(tree.sfNum, d) >= span * Pow(tree.sfDen, d)
  THEN d ELSE CeilLog(span, d + 1)

\* the constructor: a single Unknown bucket over [start, end), the tier
\* computed from the span, no summary
NewPineNode(start, end, isRoot) ==
  [tag |-> "Node", isRoot |-> isRoot,
   keys |-> <<start, end>>, values |-> <<Unknown>>,
   reverseDepth |-> IF end - start <= tree.leafScalingFactor THEN 0
                    ELSE CeilLog(end - start, 0),
   summary |-> NoSummary, wrapper |-> NoWrapper]

NewLeaf(start, continuedList) ==
  [tag |-> "Leaf", start |-> start, startList |-> <<>>,
   continuedList |-> continuedList]

HasData(n) == n.summary.present

\* hasData of whatever sits in a bucket: a leaf always has data
BucketHasData(v) ==
  CASE v.tag = "Node" -> HasData(v)
    [] v.tag = "Leaf" -> TRUE
    [] OTHER -> FALSE

ChildHasData(n, index) ==
  n.values[index].tag = "false" \/
    (n.values[index].tag # "null" /\ BucketHasData(n.values[index]))

Resolution(n) == GetResolutionAtDepth(n.reverseDepth)

\* resolution of whatever sits in a bucket: a leaf has resolution 1
BucketResolution(v) == IF v.tag = "Node" THEN Resolution(v) ELSE 1

\* getChildResolution(index) with an integer index
GetChildResolutionAt(n, index) ==
  IF n.reverseDepth <= 0 \/ n.values[index].tag = "false" THEN 1
  ELSE IF Truthy(n.values[index]) THEN BucketResolution(n.values[index])
  ELSE IF n.reverseDepth > 0 THEN GetResolutionAtDepth(n.reverseDepth - 1)
  ELSE 1

\* getChildResolution() without an index
GetChildResolution(n) ==
  IF n.reverseDepth > 0 THEN GetResolutionAtDepth(n.reverseDepth - 1) ELSE 1

ResolutionEnough(n, resolution) == Resolution(n) <= resolution

ChildResolutionEnough(n, resolution, index) ==
  GetChildResolutionAt(n, index) <= resolution

RECURSIVE FloorLog(_, _, _)
\* the largest k' >= k with scalingFactor^k' * leafScalingFactor <= num / den
FloorLog(num, den, k) ==
  IF Pow(tree.sfNum, k + 1) * tree.leafScalingFactor * den
       <= num * Pow(tree.sfDen, k + 1)
  THEN FloorLog(num, den, k + 1) ELSE k

\* a mutant of GetClosestResolution that leaves the buffering ratio out
GetClosestResolutionUnbuffered(num, den) ==
  IF num >= tree.leafScalingFactor
  THEN GetResolutionAtDepth(FloorLog(num, 1, 0))
  ELSE 1

\* _getClosestResolution(num / den)
GetClosestResolution(num, den) ==
  IF num >= tree.leafScalingFactor * den
  THEN GetResolutionAtDepth(FloorLog(num, den, 0))
  ELSE 1

\* fitResolution with Math.floor, Math.ceil and the default Math.round
FitFloor(value, resolution) == (value \div resolution) * resolution

FitCeil(value, resolution) ==
  ((value + resolution - 1) \div resolution) * resolution

FitRound(value, resolution) ==
  ((2 * value + resolution) \div (2 * resolution)) * resolution

\* a mutant of FitResolution that rounds up
FitResolutionUp(value, resolution) == FitCeil(value, resolution)

\* fitResolution(value, resolution) without a rounding function:
\* roundingFunc = roundingFunc || Math.round
FitResolution(value, resolution) == FitRound(value, resolution)

(***************************************************************************)
(* Data entries are records [start, end, sum]; sum says that the entry     *)
(* carries an embedded summary that the summary type can extract.          *)
(***************************************************************************)
RECURSIVE SkipStartsBefore(_, _, _)
\* _traverseData(data, di, entry => entry.start < x): the count of entries
\* consumed after skipping those that start before x
SkipStartsBefore(data, di, x) ==
  IF di < Len(data) /\ data[di + 1].start < x
  THEN SkipStartsBefore(data, di + 1, x) ELSE di

RECURSIVE SkipStartsAt(_, _, _)
\* _traverseData(data, di, entry => entry.start === x)
SkipStartsAt(data, di, x) ==
  IF di < Len(data) /\ data[di + 1].start = x
  THEN SkipStartsAt(data, di + 1, x) ELSE di

EndsAfter(list, x) == SelectSeq(list, LAMBDA entry : entry.end > x)

(***************************************************************************)
(* The leaf (DataNode).                                                    *)
(***************************************************************************)
\* DataNode.insert with props.dataIndex set: entries that start before the
\* leaf join the continuation list, those that start at the leaf become its
\* start list and join the continuation list for later cells
LeafInsert(leaf, data, di, continuedList) ==
  LET d1 == SkipStartsBefore(data, di, leaf.start)
      cl == EndsAfter(continuedList \o SubSeq(data, di + 1, d1), leaf.start)
      d2 == SkipStartsAt(data, d1, leaf.start)
      sl == SubSeq(data, d1 + 1, d2)
  IN [leaf |-> [leaf EXCEPT !.startList = sl, !.continuedList = cl],
      dataIndex |-> d2,
      continuedList |-> cl \o sl]

LeafIsEmpty(leaf) == leaf.startList = <<>> /\ leaf.continuedList = <<>>

\* DataNode.traverse: the carry-over list is emitted by the first leaf of a
\* walk only, the start list by every leaf
LeafTraverse(leaf, notFirstCall) ==
  (IF notFirstCall THEN <<>> ELSE leaf.continuedList) \o leaf.startList

\* DataNode.remove: drop the matching entries of the start list; FALSE when
\* the leaf has become empty
LeafRemove(leaf, data, exactMatch) ==
  IF data.start # leaf.start THEN [leaf |-> leaf, ret |-> TRUE]
  ELSE LET sl == SelectSeq(leaf.startList,
                           LAMBDA e : ~(~exactMatch \/ e = data))
           l2 == [leaf EXCEPT !.startList = sl]
       IN [leaf |-> l2, ret |-> ~LeafIsEmpty(l2)]

(***************************************************************************)
(* The tree shell (GiveNonLeafNode).                                       *)
(***************************************************************************)
\* truncateChrRange(chrRange, true, true)
TruncateChrRange(n, chrRange) ==
  [start |-> Max2(chrRange.start, Start(n)), end |-> Min2(chrRange.end, End(n))]

\* _splitChild(index, newKey, newLatterChild): the payload stays on the
\* former half, the latter half gets newLatterChild
SplitChildWith(n, index, newKey, newLatterChild) ==
  [n EXCEPT !.keys = InsertAt(n.keys, index + 1, newKey),
            !.values = InsertAt(n.values, index + 1, newLatterChild)]

\* _splitChild(index, newKey): the payload is kept on both halves
SplitChild(n, index, newKey) == SplitChildWith(n, index, newKey, n.values[index])

ChildMergable(childFront, childBack) ==
  childFront.tag = "false" /\ childBack.tag = "false"

\* the first half of _mergeChild: coalesce bucket index with the bucket
\* before it; m is [node, index, merged]
MergePrevious(m) ==
  IF m.index > 1 /\ m.index <= Len(m.node.values)
       /\ ChildMergable(m.node.values[m.index - 1], m.node.values[m.index])
  THEN [node |-> [m.node EXCEPT !.keys = RemoveAt(m.node.keys, m.index),
                                !.values = RemoveAt(m.node.values, m.index)],
        index |-> m.index - 1, merged |-> TRUE]
  ELSE m

\* the second half of _mergeChild: coalesce the bucket with the one after it
MergeNext(m) ==
  IF m.index >= 1 /\ m.index < Len(m.node.values)
       /\ ChildMergable(m.node.values[m.index], m.node.values[m.index + 1])
  THEN [node |-> [m.node EXCEPT !.keys = RemoveAt(m.node.keys, m.index + 1),
                                !.values = RemoveAt(m.node.values, m.index + 1)],
        index |-> m.index, merged |-> TRUE]
  ELSE m

\* _mergeChild(index, mergeNext, false): coalesce bucket index with the
\* bucket before it and, with mergeNext, with the bucket after it
MergeChild(n, index, mergeNext) ==
  IF mergeNext
  THEN MergeNext(MergePrevious([node |-> n, index |-> index, merged |-> FALSE]))
  ELSE MergePrevious([node |-> n, index |-> index, merged |-> FALSE])

RECURSIVE IsEmpty(_)
\* PineNode.isEmpty (no summary and the shell's isEmpty) and DataNode.isEmpty
IsEmpty(v) ==
  CASE v.tag = "Leaf" -> LeafIsEmpty(v)
    [] v.tag = "Node" ->
         ~HasData(v) /\
           (Len(v.values) <= 0 \/
             (Len(v.values) = 1 /\
               (v.values[1].tag = "false" \/
                 (Truthy(v.values[1]) /\ IsEmpty(v.values[1])))))
    [] OTHER -> FALSE

\* restructure(): an empty first child becomes KnownEmpty; ret is FALSE when
\* a non-root node is empty and its parent is to collapse it
Restructure(n) ==
  LET n1 == IF Truthy(n.values[1]) /\ IsEmpty(n.values[1])
            THEN [n EXCEPT !.values[1] = KnownEmpty] ELSE n
  IN [node |-> n1, ret |-> ~(~n1.isRoot /\ IsEmpty(n1))]

\* clear(convertTo)
Clear(n, convertTo) ==
  [n EXCEPT !.keys = <<Start(n), End(n)>>,
            !.values = <<IF convertTo.tag = "false" THEN KnownEmpty ELSE Unknown>>]

(***************************************************************************)
(* The summary cache.  A summary is the sequence of the entries folded     *)
(* into it; the neutral summary is the empty sequence.                     *)
(***************************************************************************)
RECURSIVE FoldValues(_, _, _)
\* the every() of updateSummary from bucket i on: ok is FALSE once a bucket
\* is Unknown or a child without summary
FoldValues(n, i, acc) ==
  IF i > Len(n.values) THEN [ok |-> TRUE, items |-> acc]
  ELSE LET v == n.values[i] IN
    IF v.tag = "false" THEN FoldValues(n, i + 1, acc)
    ELSE IF v.tag = "null" \/ (n.reverseDepth > 0 /\ ~BucketHasData(v))
    THEN [ok |-> FALSE, items |-> acc]
    ELSE IF n.reverseDepth > 0
    THEN FoldValues(n, i + 1, acc \o v.summary.items)
    ELSE FoldValues(n, i + 1, acc \o LeafTraverse(v, TRUE))

\* a mutant of RegenerateSummary that generates a summary whatever the
\* buckets hold
RegenerateSummaryUnchecked(n) ==
  IF HasData(n) THEN n
  ELSE [n EXCEPT !.summary = [present |-> TRUE, items |-> <<>>],
                 !.wrapper = [kind |-> "node", start |-> Start(n), end |-> End(n)]]

\* a mutant of RegenerateSummary that recomputes the summary of a node that
\* has one as well
RegenerateSummaryAlways(n) ==
  IF FoldValues(n, 1, <<>>).ok
  THEN [n EXCEPT !.summary = [present |-> TRUE,
                              items |-> FoldValues(n, 1, <<>>).items],
                 !.wrapper = [kind |-> "node", start |-> Start(n), end |-> End(n)]]
  ELSE [n EXCEPT !.summary = NoSummary, !.wrapper = NoWrapper]

\* the branch of updateSummary that regenerates the summary from the
\* buckets; it is entered only while the node has no summary
RegenerateSummary(n) ==
  IF HasData(n) THEN n
  ELSE LET f == FoldValues(n, 1, <<>>) IN
    IF f.ok
    THEN [n EXCEPT !.summary = [present |-> TRUE, items |-> f.items],
                   !.wrapper = [kind |-> "node", start |-> Start(n), end |-> End(n)]]
    ELSE [n EXCEPT !.summary = NoSummary, !.wrapper = NoWrapper]

\* updateSummary()
UpdateSummary(n) == RegenerateSummary(n)

\* updateSummary(chromEntry) with a data entry
UpdateSummaryFrom(n, chromEntry) ==
  IF chromEntry.sum
  THEN [n EXCEPT !.summary = [present |-> TRUE, items |-> <<chromEntry>>],
                 !.wrapper = [kind |-> "entry", start |-> chromEntry.start,
                              end |-> chromEntry.end]]
  ELSE RegenerateSummary(n)

\* updateSummary(new SummaryCtor()): the argument is a bare summary, not an
\* interval; whether extract() hands it back is up to the summary type
UpdateSummaryBare(n) ==
  IF tree.extractBare
  THEN [n EXCEPT !.summary = [present |-> TRUE, items |-> <<>>],
                 !.wrapper = [kind |-> "bare", start |-> 0, end |-> 0]]
  ELSE RegenerateSummary(n)

(***************************************************************************)
(* Insertion.  An insert returns the node as it leaves it, what is left of *)
(* the shared data queue, the shared continuation list, ret (FALSE when    *)
(* restructure() tells the parent to collapse the node) and err (TRUE when *)
(* an Error was thrown; the node is then as far as the call got).          *)
(***************************************************************************)
RECURSIVE DropStartsBefore(_, _)
\* while (data.length && this.start > data[0].start) data.splice(0, 1)
DropStartsBefore(data, x) ==
  IF data # <<>> /\ x > Head(data).start THEN DropStartsBefore(Tail(data), x)
  ELSE data

\* the tail of insert: updateSummary() and restructure()
InsertReturn(n, data, continuedList) ==
  LET rs == Restructure(UpdateSummary(n))
  IN [node |-> rs.node, data |-> data, continuedList |-> continuedList,
      ret |-> rs.ret, err |-> FALSE]

InsertThrow(n, data, continuedList) ==
  [node |-> n, data |-> data, continuedList |-> continuedList,
   ret |-> TRUE, err |-> TRUE]

\* the branch of insert taken when the node's resolution is enough
InsertSummary(n, data0, continuedList) ==
  LET data == DropStartsBefore(data0, Start(n)) IN
  IF data = <<>> THEN InsertReturn(n, data, continuedList)
  ELSE IF Start(n) # data[1].start \/ End(n) # data[1].end
  THEN IF ~HasData(n)
       THEN IF End(n) <= data[1].start
            THEN InsertReturn(UpdateSummaryBare(n), data, continuedList)
            ELSE InsertThrow(n, data, continuedList)
       ELSE InsertReturn(n, data, continuedList)
  ELSE InsertReturn(UpdateSummaryFrom(n, data[1]), Tail(data), continuedList)

RECURSIVE SeekIndex(_, _, _)
\* while (this.keys[currIndex + 1] <= x) currIndex++
SeekIndex(n, currIndex, x) ==
  IF currIndex + 1 <= Len(n.keys) /\ n.keys[currIndex + 1] <= x
  THEN SeekIndex(n, currIndex + 1, x) ELSE currIndex

(***************************************************************************)
(* _addLeafRecords.  The state of its loop is the record                   *)
(*   [node, data, chrRange, continuedList, currIndex, di, prev]            *)
(* with di for props.dataIndex and prev for prevDataIndex.                 *)
(***************************************************************************)
\* lines 544-548: move the cursor to the bucket of chrRange.start
LeafSeek(st) ==
  [st EXCEPT !.currIndex = SeekIndex(st.node, st.currIndex, st.chrRange.start),
             !.prev = st.di]

\* lines 549-553: entries that start before the cell join the continuation
\* list, which keeps the entries that end after the cell start
LeafContinue(st) ==
  LET d == SkipStartsBefore(st.data, st.di, st.chrRange.start)
  IN [st EXCEPT !.di = d,
                !.continuedList =
                   EndsAfter(st.continuedList \o SubSeq(st.data, st.di + 1, d),
                             st.chrRange.start)]

\* lines 558-563: split the bucket at the cell start, KnownEmpty after it
LeafSplit(st) ==
  IF st.node.keys[st.currIndex] < st.chrRange.start
  THEN [st EXCEPT !.node = SplitChildWith(st.node, st.currIndex,
                                          st.chrRange.start, KnownEmpty),
                  !.currIndex = st.currIndex + 1]
  ELSE st

\* a mutant of LeafCreate that keeps the entries of a leaf already in the
\* bucket and adds the new ones to them
LeafCreateKeepOld(st, li) ==
  [st EXCEPT !.node.values[st.currIndex] =
               IF st.node.values[st.currIndex].tag = "Leaf"
               THEN [li.leaf EXCEPT !.startList =
                       st.node.values[st.currIndex].startList \o li.leaf.startList]
               ELSE li.leaf,
             !.di = li.dataIndex,
             !.continuedList = li.continuedList]

\* lines 569-573: a new leaf for the entries that start at the cell
LeafCreate(st, li) ==
  [st EXCEPT !.node.values[st.currIndex] = li.leaf,
             !.di = li.dataIndex,
             !.continuedList = li.continuedList]

\* lines 575-584: KnownEmpty, or a leaf that carries the continuation list,
\* coalesced with the bucket before it
LeafFillMerged(st, mg) ==
  [st EXCEPT !.node = mg.node,
             !.currIndex = IF mg.merged THEN st.currIndex - 1 ELSE st.currIndex]

LeafFill(st) ==
  IF st.di < Len(st.data)
       /\ st.data[st.di + 1].start = st.node.keys[st.currIndex]
  THEN LeafCreate(st, LeafInsert(NewLeaf(st.node.keys[st.currIndex], <<>>),
                                 st.data, st.di, st.continuedList))
  ELSE IF st.node.keys[st.currIndex] < st.chrRange.end
  THEN LeafFillMerged(st,
         MergeChild([st.node EXCEPT !.values[st.currIndex] =
                       IF st.continuedList = <<>> THEN KnownEmpty
                       ELSE NewLeaf(st.node.keys[st.currIndex], st.continuedList)],
                    st.currIndex, FALSE))
  ELSE st

\* lines 587-591: shrink chrRange to the unprocessed range
LeafShrink(st) ==
  [st EXCEPT !.chrRange.start =
     IF st.di < Len(st.data) /\ st.data[st.di + 1].start < st.chrRange.end
     THEN st.data[st.di + 1].start ELSE st.chrRange.end]

RECURSIVE LeafLoop(_)
\* the while loop of _addLeafRecords
LeafLoop(st) ==
  IF st.chrRange.start < st.chrRange.end
  THEN LeafLoop(LeafShrink(LeafFill(LeafSplit(LeafContinue(LeafSeek(st))))))
  ELSE st

\* lines 523-533: split the bucket that holds chrRange.start
LeafSplitStart(st) ==
  IF st.node.keys[st.currIndex] < st.chrRange.start
  THEN [st EXCEPT !.node = SplitChild(st.node, st.currIndex, st.chrRange.start),
                  !.currIndex = st.currIndex + 1]
  ELSE st

\* lines 535-541: split the bucket that holds chrRange.end
LeafSplitEnd(st) ==
  IF st.node.keys[st.currIndex + 1] > st.chrRange.end
  THEN [st EXCEPT !.node = SplitChild(st.node, st.currIndex, st.chrRange.end)]
  ELSE st

\* lines 594-601: the continuation list for one last time, and the splice of
\* the processed data; slice(prevDataIndex, dataIndex) starts at 0 when the
\* loop never ran and prevDataIndex is undefined
LeafFinish(st) ==
  [node |-> st.node,
   data |-> SubSeq(st.data, st.di + 1, Len(st.data)),
   continuedList |->
     EndsAfter(st.continuedList \o SubSeq(st.data, st.prev + 1, st.di),
               st.chrRange.end),
   err |-> FALSE]

\* _addLeafRecords
AddLeafRecords(n, data, chrRange, continuedList) ==
  LeafFinish(LeafLoop(LeafSplitEnd(LeafSplitStart(
    [node |-> n, data |-> data, chrRange |-> chrRange,
     continuedList |-> continuedList,
     currIndex |-> SeekIndex(n, 1, chrRange.start), di |-> 0, prev |-> 0]))))

(***************************************************************************)
(* _addNonLeafRecords.  The state of its loop is the record                *)
(*   [node, data, chrRange, childRange, continuedList, currIndex, err].    *)
(***************************************************************************)
RECURSIVE Insert(_, _, _, _, _)

\* lines 433-445: the window of the child and the cursor
NonLeafWindow(st) ==
  LET newRangeStart == FitFloor(st.chrRange.start, GetChildResolution(st.node))
      newRangeEnd ==
        Min2(End(st.node),
             Min2(FitCeil(st.chrRange.end, GetChildResolution(st.node)),
                  newRangeStart + GetChildResolution(st.node)))
  IN [st EXCEPT !.childRange = [start |-> newRangeStart, end |-> newRangeEnd],
                !.currIndex = SeekIndex(st.node, st.currIndex, newRangeStart)]

\* an array slot that was never written
Hole == [tag |-> "undefined"]

RECURSIVE Holes(_)
Holes(k) == IF k <= 0 THEN <<>> ELSE <<Hole>> \o Holes(k - 1)

\* this.values[index] = v: a write past the last bucket makes the array
\* longer
SetValue(n, index, v) ==
  IF index <= Len(n.values) THEN [n EXCEPT !.values[index] = v]
  ELSE [n EXCEPT !.values = n.values \o Holes(index - Len(n.values) - 1) \o <<v>>]

\* lines 449-452: split off the space before the window; a key past the last
\* one is undefined and compares false
NonLeafSplitStart(st) ==
  IF st.currIndex <= Len(st.node.keys)
       /\ st.node.keys[st.currIndex] < st.childRange.start
  THEN [st EXCEPT !.node = SplitChild(st.node, st.currIndex, st.childRange.start),
                  !.currIndex = st.currIndex + 1]
  ELSE st

\* lines 454-457: split off the space after the window
NonLeafSplitEnd(st) ==
  IF st.currIndex + 1 <= Len(st.node.keys)
       /\ st.node.keys[st.currIndex + 1] > st.childRange.end
  THEN [st EXCEPT !.node = SplitChild(st.node, st.currIndex, st.childRange.end)]
  ELSE st

\* a mutant of NonLeafLive that does not recurse into a window for being
\* covered only partly
NonLeafLiveCoverBlind(st) ==
  \/ (st.data # <<>> /\ st.data[1].start < st.childRange.end)
  \/ (\E k \in 1..Len(st.continuedList) :
        st.continuedList[k].end > st.childRange.start)

\* lines 471-475: whether the window is recursed into
NonLeafLive(st) ==
  \/ (st.data # <<>> /\ st.data[1].start < st.childRange.end)
  \/ (\E k \in 1..Len(st.continuedList) :
        st.continuedList[k].end > st.childRange.start)
  \/ (st.chrRange.start > st.childRange.start
        \/ st.chrRange.end < st.childRange.end)

\* lines 493-500: the bucket becomes KnownEmpty and is coalesced
NonLeafCollapsed(st, mg) ==
  [st EXCEPT !.node = mg.node,
             !.currIndex = IF mg.merged THEN st.currIndex - 1 ELSE st.currIndex]

NonLeafCollapse(st) ==
  NonLeafCollapsed(st,
    MergeChild(SetValue(st.node, st.currIndex, KnownEmpty), st.currIndex, TRUE))

\* lines 488-500: the child as its insert left it, collapsed when the insert
\* returned false; an Error thrown by the child ends the loop
NonLeafAfterChild(st, ci) ==
  IF ci.err
  THEN [st EXCEPT !.node = SetValue(st.node, st.currIndex, ci.node),
                  !.data = ci.data,
                  !.continuedList = ci.continuedList, !.err = TRUE]
  ELSE IF ~ci.ret
  THEN NonLeafCollapse([st EXCEPT !.data = ci.data,
                                  !.continuedList = ci.continuedList])
  ELSE [st EXCEPT !.node = SetValue(st.node, st.currIndex, ci.node),
                  !.data = ci.data,
                  !.continuedList = ci.continuedList]

\* lines 478-487: the child of the window, made when the bucket holds none
NonLeafChild(st) ==
  IF st.currIndex > Len(st.node.values) \/ ~Truthy(st.node.values[st.currIndex])
  THEN NewPineNode(st.childRange.start, st.childRange.end, FALSE)
  ELSE st.node.values[st.currIndex]

\* lines 469-500
NonLeafFill(st, resolution) ==
  IF NonLeafLive(st)
  THEN NonLeafAfterChild(st, Insert(NonLeafChild(st), st.data, st.chrRange,
                                    st.continuedList, resolution))
  ELSE NonLeafCollapse(st)

\* a mutant of NonLeafAdvance that leaves chrRange.start of the root's loop
\* where it was
NonLeafAdvanceStall(st) ==
  IF st.err \/ st.node.isRoot THEN st
  ELSE [st EXCEPT !.chrRange.start = Min2(st.childRange.end, st.chrRange.end),
                  !.currIndex = st.currIndex + 1]

\* lines 502-503
NonLeafAdvance(st) ==
  IF st.err THEN st
  ELSE [st EXCEPT !.chrRange.start = Min2(st.childRange.end, st.chrRange.end),
                  !.currIndex = st.currIndex + 1]

RECURSIVE NonLeafLoop(_, _)
\* the while loop of _addNonLeafRecords
NonLeafLoop(st, resolution) ==
  IF ~st.err /\ st.chrRange.start < st.chrRange.end
  THEN NonLeafLoop(
         NonLeafAdvance(NonLeafFill(
           NonLeafSplitEnd(NonLeafSplitStart(NonLeafWindow(st))), resolution)),
         resolution)
  ELSE st

\* _addNonLeafRecords
AddNonLeafRecords(n, data, chrRange, continuedList, resolution) ==
  NonLeafLoop([node |-> n, data |-> data, chrRange |-> chrRange,
               childRange |-> chrRange, continuedList |-> continuedList,
               currIndex |-> 1, err |-> FALSE], resolution)

\* lines 393-404: the fan-out, then updateSummary() and restructure()
InsertAfterFanOut(r) ==
  IF r.err THEN InsertThrow(r.node, r.data, r.continuedList)
  ELSE InsertReturn(r.node, r.data, r.continuedList)

\* insert(data, chrRange, props) with chrRange.resolution = resolution and
\* props.continuedList = continuedList
Insert(n, data, chrRange, continuedList, resolution) ==
  IF ResolutionEnough(n, resolution)
  THEN InsertSummary(n, data, continuedList)
  ELSE IF n.reverseDepth > 0
  THEN InsertAfterFanOut(AddNonLeafRecords(n, data, TruncateChrRange(n, chrRange),
                                           continuedList, resolution))
  ELSE InsertAfterFanOut(AddLeafRecords(n, data, TruncateChrRange(n, chrRange),
                                        continuedList))

(***************************************************************************)
(* Removal.                                                                *)
(***************************************************************************)
\* _compareData(data, this): the node's payload, the entry it was given as
\* its summary, equals the target
CompareData(data, n) ==
  n.wrapper.kind = "entry" /\ HasData(n) /\ n.summary.items = <<data>>

RECURSIVE LocateChild(_, _, _)
\* while (i < this.values.length && this.keys[i + 1] <= x) i++
LocateChild(n, i, x) ==
  IF i <= Len(n.values) /\ n.keys[i + 1] <= x THEN LocateChild(n, i + 1, x)
  ELSE i

\* a mutant of RemoveCollapse that does not coalesce the bucket
RemoveCollapseNoMerge(n, i, convertTo) == [n EXCEPT !.values[i] = convertTo]

\* a mutant of RemoveCollapse that recomputes the summary of the node whose
\* bucket it collapses
RemoveCollapseRefresh(n, i, convertTo) ==
  RegenerateSummaryAlways(MergeChild([n EXCEPT !.values[i] = convertTo], i, TRUE).node)

\* a mutant of RemoveCollapse that leaves the removable child where it is
RemoveCollapseKeep(n, i, convertTo) == n

\* lines 627-628: the bucket of a child that reported itself removable
\* becomes convertTo and is coalesced with its neighbours
RemoveCollapse(n, i, convertTo) ==
  MergeChild([n EXCEPT !.values[i] = convertTo], i, TRUE).node

RECURSIVE Remove(_, _, _, _)
\* remove(data, exactMatch, convertTo): ret is FALSE when the caller is to
\* replace the node by convertTo
Remove(n, data, exactMatch, convertTo) ==
  IF Start(n) = data.start /\ End(n) = data.end
       /\ (~exactMatch \/ CompareData(data, n))
  THEN [node |-> Clear(n, convertTo), ret |-> n.isRoot]
  ELSE
    LET i == LocateChild(n, 1, data.start)
        found == i <= Len(n.values) /\ Truthy(n.values[i])
        sub == IF n.values[i].tag = "Leaf"
               THEN LET lr == LeafRemove(n.values[i], data, exactMatch)
                    IN [node |-> lr.leaf, ret |-> lr.ret]
               ELSE Remove(n.values[i], data, exactMatch, convertTo)
        n1 == IF ~found THEN n
              ELSE IF ~sub.ret
              THEN RemoveCollapse(n, i, convertTo)
              ELSE [n EXCEPT !.values[i] = sub.node]
    IN [node |-> n1,
        ret |-> Len(n1.values) > 1 \/ ~(n1.values[1].tag \in {"null", "false"})]

(***************************************************************************)
(* Traversal.  The callback collects what it is given and never stops the  *)
(* walk; out is what it was given, in order, and nfc is props.notFirstCall *)
(* after the call.                                                         *)
(***************************************************************************)
RawItem(entry) == [kind |-> "raw", start |-> entry.start, end |-> entry.end]

RawItems(list) == [k \in 1..Len(list) |-> RawItem(list[k])]

RECURSIVE Traverse(_, _, _, _)

RECURSIVE WalkBuckets(_, _, _, _, _)
\* GiveNonLeafNode.traverse from bucket currIndex on
WalkBuckets(n, chrRange, resolution, nfc, currIndex) ==
  IF ~(currIndex <= Len(n.values) /\ n.keys[currIndex] < chrRange.end)
  THEN [out |-> <<>>, nfc |-> nfc, ret |-> TRUE]
  ELSE
    LET v == n.values[currIndex]
        sub == IF v.tag = "Leaf"
               THEN [out |-> RawItems(LeafTraverse(v, nfc)), nfc |-> TRUE,
                     ret |-> TRUE]
               ELSE Traverse(v, chrRange, resolution, nfc)
    IN IF Truthy(v) /\ ~sub.ret
       THEN [out |-> sub.out, nfc |-> sub.nfc, ret |-> FALSE]
       ELSE LET rest == WalkBuckets(n, chrRange, resolution, TRUE, currIndex + 1)
            IN [out |-> (IF Truthy(v) THEN sub.out ELSE <<>>) \o rest.out,
                nfc |-> rest.nfc, ret |-> rest.ret]

\* traverse(chrRange, callback, null, false, props) with chrRange.resolution =
\* resolution; ret is FALSE for the undefined returned by a node outside
\* chrRange
Traverse(n, chrRange, resolution, nfc) ==
  IF Start(n) < chrRange.end /\ End(n) > chrRange.start
  THEN IF ResolutionEnough(n, resolution) /\ HasData(n)
       THEN [out |-> <<n.wrapper>>, nfc |-> nfc, ret |-> TRUE]
       ELSE WalkBuckets(n, chrRange, resolution, nfc,
                        SeekIndex(n, 1, chrRange.start))
  ELSE [out |-> <<>>, nfc |-> nfc, ret |-> FALSE]

(***************************************************************************)
(* Cache queries.  A result entry is [start, end, resolution].             *)
(***************************************************************************)
RECURSIVE GetUncachedRange(_, _, _, _, _)

\* a mutant of RetrieveStart that does not clip to the bucket
RetrieveStartUnclipped(n, currIndex, chrRange, closestResolution) ==
  FitFloor(chrRange.start, closestResolution)

\* lines 756-758: the start of the range to retrieve for bucket currIndex
RetrieveStart(n, currIndex, chrRange, closestResolution) ==
  Max2(n.keys[currIndex], FitFloor(chrRange.start, closestResolution))

\* a mutant of RetrieveEnd that does not clip to the bucket
RetrieveEndUnclipped(n, currIndex, chrRange, closestResolution) ==
  FitCeil(chrRange.end, closestResolution)

\* lines 759-761: the end of the range to retrieve for bucket currIndex
RetrieveEnd(n, currIndex, chrRange, closestResolution) ==
  Min2(n.keys[currIndex + 1], FitCeil(chrRange.end, closestResolution))

\* a mutant of AppendGap that never extends the previous entry
AppendGapNoExtend(result, retrieveStart, retrieveEnd, closestResolution) ==
  Append(result, [start |-> retrieveStart, end |-> retrieveEnd,
                  resolution |-> closestResolution])

\* lines 762-775: extend the previous entry when it is contiguous and has
\* the same resolution, push a new entry otherwise
AppendGap(result, retrieveStart, retrieveEnd, closestResolution) ==
  IF result # <<>>
       /\ result[Len(result)].resolution = closestResolution
       /\ result[Len(result)].end = retrieveStart
  THEN [result EXCEPT ![Len(result)].end = retrieveEnd]
  ELSE Append(result, [start |-> retrieveStart, end |-> retrieveEnd,
                       resolution |-> closestResolution])

RECURSIVE UncachedLoop(_, _, _, _, _, _)
\* the second while loop of getUncachedRange from bucket currIndex on
UncachedLoop(n, chrRange, resolution, bufferingRatio, result, currIndex) ==
  IF ~(currIndex <= Len(n.values) /\ n.keys[currIndex] < chrRange.end)
  THEN result
  ELSE UncachedLoop(n, chrRange, resolution, bufferingRatio,
         IF Truthy(n.values[currIndex])
              /\ ~ChildResolutionEnough(n, resolution, currIndex)
         THEN GetUncachedRange(n.values[currIndex], chrRange, resolution,
                               bufferingRatio, result)
         ELSE IF ~ChildHasData(n, currIndex)
         THEN AppendGap(result,
                RetrieveStart(n, currIndex, chrRange,
                              GetClosestResolution(resolution, bufferingRatio)),
                RetrieveEnd(n, currIndex, chrRange,
                            GetClosestResolution(resolution, bufferingRatio)),
                GetClosestResolution(resolution, bufferingRatio))
         ELSE result,
         currIndex + 1)

\* the bufferingRatio check of getUncachedRange
\* a mutant of FixBufferingRatio that corrects an invalid ratio to 2
FixBufferingRatioToTwo(bufferingRatio) ==
  IF bufferingRatio < 1 THEN 2 ELSE bufferingRatio

FixBufferingRatio(bufferingRatio) == IF bufferingRatio < 1 THEN 1 ELSE bufferingRatio

\* getUncachedRange(chrRange, props) with chrRange.resolution = resolution,
\* props.bufferingRatio = bufferingRatio and props._result = result
GetUncachedRange(n, chrRange, resolution, bufferingRatio, result) ==
  UncachedLoop(n, chrRange, resolution, FixBufferingRatio(bufferingRatio),
               result, LocateChild(n, 1, chrRange.start))

RECURSIVE HasUncachedRange(_, _, _)

\* a mutant of HasUncachedLoop that looks at the first bucket only and
\* never walks into a child
HasUncachedLoopShallow(n, chrRange, resolution, currIndex) ==
  /\ currIndex <= Len(n.values) /\ n.keys[currIndex] < chrRange.end
  /\ ~ChildHasData(n, currIndex)

RECURSIVE HasUncachedLoop(_, _, _, _)
\* the second while loop of hasUncachedRange from bucket currIndex on
HasUncachedLoop(n, chrRange, resolution, currIndex) ==
  IF ~(currIndex <= Len(n.values) /\ n.keys[currIndex] < chrRange.end)
  THEN FALSE
  ELSE
    LET v == n.values[currIndex] IN
    IF Truthy(v) /\ ~ChildResolutionEnough(n, resolution, currIndex)
    THEN HasUncachedRange(v, chrRange, resolution)
           \/ HasUncachedLoop(n, chrRange, resolution, currIndex + 1)
    ELSE ~ChildHasData(n, currIndex)
           \/ HasUncachedLoop(n, chrRange, resolution, currIndex + 1)

\* hasUncachedRange(chrRange, props) with chrRange.resolution = resolution
HasUncachedRange(n, chrRange, resolution) ==
  HasUncachedLoop(n, chrRange, resolution, LocateChild(n, 1, chrRange.start))

(***************************************************************************)
(* The state machine: a tree handle, its root node, and a record of the    *)
(* last mutating call and of what it returned.                             *)
(***************************************************************************)
\* the tree handles explored: scalingFactor sfNum / sfDen, leafScalingFactor,
\* the root's range, and whether the summary type's extract() accepts a bare
\* summary
Configs ==
  { [sfNum |-> 2, sfDen |-> 1, leafScalingFactor |-> 2, start |-> 0, end |-> 4,
     extractBare |-> b] : b \in BOOLEAN }

Ranges ==
  { r \in [start : tree.start..tree.end - 1, end : tree.start + 1..tree.end] :
      r.start < r.end }

\* the resolutions of the tiers of the tree, and 1
Resolutions == {1} \cup { GetResolutionAtDepth(d) : d \in 0..root.reverseDepth }

RawEntries ==
  { [start |-> r.start, end |-> r.end, sum |-> FALSE] :
      r \in { x \in Ranges : x.end - x.start <= MaxEntryLen } }

\* entries that carry the summary of one cell of the grid of resolution res
SummaryEntriesAt(res) ==
  { [start |-> r.start, end |-> r.end, sum |-> TRUE] :
      r \in { x \in Ranges : /\ x.start = FitFloor(x.start, res)
                             /\ x.end = Min2(x.start + res, tree.end) } }

SummaryEntries == UNION { SummaryEntriesAt(res) : res \in Resolutions }

\* the entries a caller sends at a resolution: raw entries at resolution 1,
\* summaries of grid cells at a coarser one
EntriesFor(resolution) ==
  IF resolution = 1 THEN RawEntries \cup SummaryEntriesAt(1)
  ELSE SummaryEntries

Entries == RawEntries \cup SummaryEntries

\* the order of a sorted data list: by start, then by end
Before(e1, e2) ==
  e1.start < e2.start \/ (e1.start = e2.start /\ e1.end <= e2.end)

IsSorted(data) ==
  \A k \in 1..Len(data) - 1 : Before(data[k], data[k + 1]) /\ data[k] # data[k + 1]

RECURSIVE SeqsUpTo(_, _)
SeqsUpTo(S, n) ==
  IF n = 0 THEN {<<>>}
  ELSE LET shorter == SeqsUpTo(S, n - 1)
       IN shorter \cup { Append(q, e) : q \in shorter, e \in S }

\* sorted lists of at most MaxData entries, none of them wholly before the
\* target range
DataLists(chrRange, resolution, maxLen) ==
  { data \in SeqsUpTo({ e \in EntriesFor(resolution) : e.end > chrRange.start },
                      maxLen) : IsSorted(data) }

NoCall ==
  [op |-> "none", data |-> <<>>, range |-> [start |-> 0, end |-> 0],
   resolution |-> 1, exactMatch |-> FALSE, convertTo |-> Unknown,
   err |-> FALSE, ret |-> TRUE, dataLeft |-> <<>>, continuedList |-> <<>>,
   value |-> 0]

Init ==
  /\ tree \in Configs
  /\ root = NewPineNode(tree.start, tree.end, TRUE)
  /\ last = NoCall
  /\ nops = 0

\* root.insert(data, chrRange, props) with chrRange.resolution = resolution
\* and a fresh props
DoInsert(data, chrRange, resolution) ==
  LET res == Insert(root, data, chrRange, <<>>, resolution) IN
    /\ root' = res.node
    /\ last' = [NoCall EXCEPT !.op = "insert", !.data = data,
                  !.range = chrRange, !.resolution = resolution,
                  !.err = res.err, !.ret = res.ret, !.dataLeft = res.data,
                  !.continuedList = res.continuedList]
    /\ nops' = nops + 1
    /\ UNCHANGED tree

InsertOp ==
  /\ nops < MaxOps
  /\ \E chrRange \in Ranges, resolution \in Resolutions :
       \E data \in DataLists(chrRange, resolution, MaxData) :
         DoInsert(data, chrRange, resolution)

\* root.remove(data, exactMatch, convertTo)
RemoveOp ==
  /\ nops < MaxOps
  /\ \E data \in Entries, exactMatch \in BOOLEAN,
        convertTo \in {Unknown, KnownEmpty} :
       LET res == Remove(root, data, exactMatch, convertTo) IN
         /\ root' = res.node
         /\ last' = [NoCall EXCEPT !.op = "remove", !.data = <<data>>,
                       !.range = [start |-> data.start, end |-> data.end],
                       !.exactMatch = exactMatch, !.convertTo = convertTo,
                       !.ret = res.ret]
  /\ nops' = nops + 1
  /\ UNCHANGED tree

Next == InsertOp \/ RemoveOp

Spec == Init /\ [][Next]_vars

(***************************************************************************)
(* A single insert at resolution 1 into a fresh tree, over more handles    *)
(* and longer data lists.                                                  *)
(***************************************************************************)
FreshConfigs ==
  { [sfNum |-> 2, sfDen |-> 1, leafScalingFactor |-> 2, start |-> 0, end |-> 8,
     extractBare |-> TRUE],
    [sfNum |-> 2, sfDen |-> 1, leafScalingFactor |-> 1, start |-> 0, end |-> 4,
     extractBare |-> TRUE],
    [sfNum |-> 3, sfDen |-> 1, leafScalingFactor |-> 2, start |-> 0, end |-> 7,
     extractBare |-> TRUE] }

InitFresh ==
  /\ tree \in FreshConfigs
  /\ root = NewPineNode(tree.start, tree.end, TRUE)
  /\ last = NoCall
  /\ nops = 0

FreshInsertOp ==
  /\ nops = 0
  /\ \E chrRange \in Ranges :
       \E data \in DataLists(chrRange, 1, MaxFreshData) :
         DoInsert(data, chrRange, 1)

NextFresh == FreshInsertOp

SpecFresh == InitFresh /\ [][NextFresh]_vars

(***************************************************************************)
(* One entry inserted at resolution 1 into a fresh tree and then removed.  *)
(***************************************************************************)
InsertEntryOp ==
  /\ nops = 0
  /\ \E chrRange \in Ranges :
       \E E \in { e \in EntriesFor(1) : chrRange.start <= e.start
                                        /\ e.end <= chrRange.end } :
         DoInsert(<<E>>, chrRange, 1)

\* root.remove(E, exactMatch, convertTo) of the entry E just inserted
RemoveEntryOp ==
  /\ nops = 1 /\ last.op = "insert" /\ ~last.err
  /\ \E exactMatch \in BOOLEAN, convertTo \in {Unknown, KnownEmpty} :
       LET res == Remove(root, last.data[1], exactMatch, convertTo) IN
         /\ root' = res.node
         /\ last' = [last EXCEPT !.op = "remove", !.exactMatch = exactMatch,
                                 !.convertTo = convertTo, !.ret = res.ret]
  /\ nops' = nops + 1
  /\ UNCHANGED tree

NextRemove == InsertEntryOp \/ RemoveEntryOp

SpecRemove == InitFresh /\ [][NextRemove]_vars

(***************************************************************************)
(* The same insert made twice in a row: after the operations of Spec on    *)
(* its handles, and after the single insert of SpecFresh on the others.    *)
(***************************************************************************)
InitTwice ==
  /\ tree \in Configs \cup FreshConfigs
  /\ root = NewPineNode(tree.start, tree.end, TRUE)
  /\ last = NoCall
  /\ nops = 0

FirstOps ==
  \/ tree \in Configs /\ (InsertOp \/ RemoveOp)
  \/ tree \in FreshConfigs /\ FreshInsertOp

\* root.insert(data, chrRange, props) once more, with a fresh copy of the
\* data of the insert that has just returned and a fresh props
RepeatInsertOp ==
  /\ last.op = "insert" /\ ~last.err
  /\ LET res == Insert(root, last.data, last.range, <<>>, last.resolution) IN
       /\ root' = res.node
       /\ last' = [last EXCEPT !.op = "reinsert", !.err = res.err,
                               !.ret = res.ret, !.dataLeft = res.data,
                               !.continuedList = res.continuedList]
  /\ nops' = nops + 1
  /\ UNCHANGED tree

NextTwice == FirstOps \/ RepeatInsertOp

SpecTwice == InitTwice /\ [][NextTwice]_vars

(***************************************************************************)
(* Inserts and removals at resolution 1 on a tree whose nodes have three   *)
(* windows.  A behaviour is followed up to the first state in which a node *)
(* breaks the shape of the shell: what the shell does with such a node is  *)
(* not specified.                                                          *)
(***************************************************************************)
ShellConfigs ==
  { [sfNum |-> 3, sfDen |-> 1, leafScalingFactor |-> 2, start |-> 0, end |-> 6,
     extractBare |-> TRUE] }

RECURSIVE ShellSound(_, _, _)
\* the node in a bucket [s, e): keys strictly increasing from s to e, one
\* bucket fewer than keys, and the same for every child node
ShellSound(v, s, e) ==
  IF v.tag # "Node" THEN TRUE
  ELSE /\ Len(v.keys) >= 2
       /\ Len(v.values) = Len(v.keys) - 1
       /\ v.keys[1] = s /\ v.keys[Len(v.keys)] = e
       /\ \A i \in 1..Len(v.keys) - 1 : v.keys[i] < v.keys[i + 1]
       /\ \A i \in 1..Len(v.values) :
            i < Len(v.keys) => ShellSound(v.values[i], v.keys[i], v.keys[i + 1])

InitShell ==
  /\ tree \in ShellConfigs
  /\ root = NewPineNode(tree.start, tree.end, TRUE)
  /\ last = NoCall
  /\ nops = 0

ShellInsertOp ==
  /\ nops < MaxOps
  /\ ShellSound(root, tree.start, tree.end)
  /\ \E chrRange \in Ranges :
       \E data \in DataLists(chrRange, 1, MaxData) :
         DoInsert(data, chrRange, 1)

ShellRemoveOp ==
  /\ nops < MaxOps
  /\ ShellSound(root, tree.start, tree.end)
  /\ \E data \in RawEntries, exactMatch \in BOOLEAN,
        convertTo \in {Unknown, KnownEmpty} :
       LET res == Remove(root, data, exactMatch, convertTo) IN
         /\ root' = res.node
         /\ last' = [NoCall EXCEPT !.op = "remove", !.data = <<data>>,
                       !.range = [start |-> data.start, end |-> data.end],
                       !.exactMatch = exactMatch, !.convertTo = convertTo,
                       !.ret = res.ret]
  /\ nops' = nops + 1
  /\ UNCHANGED tree

NextShell == ShellInsertOp \/ ShellRemoveOp

SpecShell == InitShell /\ [][NextShell]_vars

(***************************************************************************)
(* The pure functions of the resolution ladder, applied to inputs drawn    *)
(* from bounded sets on handles with scaling factors 2, 3 and 3/2.  On     *)
(* these inputs the quotients of logarithms the code computes in double    *)
(* precision have the same floor as the exact ones.                        *)
(***************************************************************************)
LadderConfigs ==
  { [sfNum |-> sf[1], sfDen |-> sf[2], leafScalingFactor |-> l,
     start |-> 0, end |-> 4, extractBare |-> TRUE] :
      sf \in {<<2, 1>>, <<3, 1>>, <<3, 2>>}, l \in 1..MaxLeafScaling }

InitLadder ==
  /\ tree \in LadderConfigs
  /\ root = NewPineNode(tree.start, tree.end, TRUE)
  /\ last = NoCall
  /\ nops = 0

\* root._getClosestResolution(requiredRes)
ClosestResolutionOp ==
  /\ \E requiredRes \in 1..MaxRes :
       last' = [NoCall EXCEPT !.op = "closestResolution",
                              !.resolution = requiredRes,
                              !.value = GetClosestResolution(requiredRes, 1)]
  /\ UNCHANGED <<tree, root, nops>>

\* root._getResolutionAtDepth(revDepth) and root._getResolutionAtDepth(revDepth + 1)
ResolutionAtDepthOp ==
  /\ \E revDepth \in 0..MaxDepth :
       last' = [NoCall EXCEPT !.op = "resolutionAtDepth",
                              !.range = [start |-> revDepth, end |-> revDepth + 1],
                              !.resolution = GetResolutionAtDepth(revDepth),
                              !.value = GetResolutionAtDepth(revDepth + 1)]
  /\ UNCHANGED <<tree, root, nops>>

\* PineNode.fitResolution(value, resolution)
FitResolutionOp ==
  /\ \E value \in 0..MaxRes, resolution \in 1..MaxRes :
       last' = [NoCall EXCEPT !.op = "fitResolution",
                              !.range = [start |-> value, end |-> value],
                              !.resolution = resolution,
                              !.value = FitResolution(value, resolution)]
  /\ UNCHANGED <<tree, root, nops>>

NextLadder == ClosestResolutionOp \/ ResolutionAtDepthOp \/ FitResolutionOp

SpecLadder == InitLadder /\ [][NextLadder]_vars

(***************************************************************************)
(* The operations of Spec, and updateSummary() called on the root by       *)
(* itself.                                                                 *)
(***************************************************************************)
\* root.updateSummary()
RefreshOp ==
  /\ nops <= MaxOps /\ last.op # "updateSummary"
  /\ root' = UpdateSummary(root)
  /\ last' = [NoCall EXCEPT !.op = "updateSummary"]
  /\ nops' = nops + 1
  /\ UNCHANGED tree

NextRefresh == InsertOp \/ RemoveOp \/ RefreshOp

SpecRefresh == Init /\ [][NextRefresh]_vars

(***************************************************************************)
(* Claims.                                                                 *)
(***************************************************************************)
\* C1: once insert(data, R) at resolution r has returned normally, no Unknown
\* bucket is left inside R: hasUncachedRange(R, r) is false and
\* getUncachedRange(R, r) is the empty list, also for an R off the grid of r.
C1_NoUncachedAfterInsert ==
  (last.op = "insert" /\ ~last.err) =>
    /\ ~HasUncachedRange(root, last.range, last.resolution)
    /\ GetUncachedRange(root, last.range, last.resolution, 1, <<>>) = <<>>

\* R minus Q as maximal ranges in start order, each tagged resolution 1
RangeMinus(R, Q) ==
  IF Q.end <= R.start \/ R.end <= Q.start
  THEN <<[start |-> R.start, end |-> R.end, resolution |-> 1]>>
  ELSE (IF R.start < Q.start
        THEN <<[start |-> R.start, end |-> Q.start, resolution |-> 1]>>
        ELSE <<>>)
       \o (IF Q.end < R.end
           THEN <<[start |-> Q.end, end |-> R.end, resolution |-> 1]>>
           ELSE <<>>)

\* the data of the last insert can be stored at resolution 1: when the
\* finest nodes themselves have resolution 1 (leafScalingFactor 1) they take
\* their content from the summary embedded in the entry
Storable ==
  tree.leafScalingFactor > 1 \/ \A k \in 1..Len(last.data) : last.data[k].sum

Emits(item, E) ==
  item.kind \in {"raw", "entry"} /\ item.start = E.start /\ item.end = E.end

\* C3: for every tree handle, leafScalingFactor 1 included, every entry E
\* and every range R containing E, insert([E], R) at resolution 1 returns
\* without an error and traverse(R, resolution 1) then gives the callback E
\* exactly once and nothing else.
C3_RoundTrip ==
  ( /\ last.op = "insert" /\ last.resolution = 1 /\ Len(last.data) = 1
    /\ last.range.start <= last.data[1].start
    /\ last.data[1].end <= last.range.end ) =>
    /\ ~last.err
    /\ LET out == Traverse(root, last.range, 1, FALSE).out
       IN Len(out) = 1 /\ Emits(out[1], last.data[1])

RECURSIVE AllCachedBeneath(_)
\* every bucket beneath n that is not KnownEmpty has data, recursively
AllCachedBeneath(n) ==
  \A i \in 1..Len(n.values) :
    \/ n.values[i] = KnownEmpty
    \/ /\ ChildHasData(n, i)
       /\ n.values[i].tag = "Node" => AllCachedBeneath(n.values[i])

RECURSIVE SummariesSound(_)
\* every node of the subtree of n that has data is cached all the way down
SummariesSound(n) ==
  /\ HasData(n) => AllCachedBeneath(n)
  /\ \A i \in 1..Len(n.values) :
       n.values[i].tag = "Node" => SummariesSound(n.values[i])

\* C4: in every state reached by inserts and removes, a node whose summary
\* is present has no Unknown bucket and no child without data beneath it:
\* every bucket beneath it that is not KnownEmpty has data, recursively.
C4_SummaryImpliesCached == SummariesSound(root)

\* every bucket of n itself is KnownEmpty or a child or leaf that has data
BucketsCached(n) ==
  \A i \in 1..Len(n.values) : n.values[i] = KnownEmpty \/ ChildHasData(n, i)

RECURSIVE RegeneratesIffCached(_)
\* in the subtree of n, updateSummary() on a node without summary yields a
\* summary exactly when the buckets of that node are cached
RegeneratesIffCached(n) ==
  /\ HasData(RegenerateSummary([n EXCEPT !.summary = NoSummary,
                                         !.wrapper = NoWrapper]))
       <=> BucketsCached(n)
  /\ \A i \in 1..Len(n.values) :
       n.values[i].tag = "Node" => RegeneratesIffCached(n.values[i])

RECURSIVE GeneratedSound(_)
\* in the subtree of n, the nodes that carry a generated summary have their
\* buckets cached
GeneratedSound(n) ==
  /\ (HasData(n) /\ n.wrapper.kind = "node") => BucketsCached(n)
  /\ \A i \in 1..Len(n.values) :
       n.values[i].tag = "Node" => GeneratedSound(n.values[i])

\* C4 (amended): updateSummary() generates a summary for a node that has
\* none exactly when every bucket of the node is KnownEmpty or a child or
\* leaf that has data, so after the first operation on an empty tree every
\* generated summary sits on cached buckets.  A summary supplied with a data
\* entry is installed whatever the buckets hold, and no summary is computed
\* again by a later insert or remove.
C4_GeneratedIffCached ==
  /\ RegeneratesIffCached(root)
  /\ nops <= 1 => GeneratedSound(root)

\* the root carries a summary generated from a child that has data
C4_Witness ==
  /\ HasData(root) /\ root.wrapper.kind = "node"
  /\ \E i \in 1..Len(root.values) :
       Truthy(root.values[i]) /\ ChildHasData(root, i)

\* traverse on node n short-circuits when it must and walks the buckets
\* otherwise
ShortCircuits(n, chrRange, resolution) ==
  (Start(n) < chrRange.end /\ End(n) > chrRange.start) =>
    IF ResolutionEnough(n, resolution) /\ HasData(n)
    THEN /\ Traverse(n, chrRange, resolution, FALSE).out = <<n.wrapper>>
         /\ n.wrapper.kind \in {"node", "entry"}
         /\ n.wrapper.start = Start(n) /\ n.wrapper.end = End(n)
    ELSE Traverse(n, chrRange, resolution, FALSE)
           = WalkBuckets(n, chrRange, resolution, FALSE,
                         SeekIndex(n, 1, chrRange.start))

RECURSIVE ShortCircuitsBeneath(_)
ShortCircuitsBeneath(n) ==
  /\ \A chrRange \in Ranges, resolution \in Resolutions :
       ShortCircuits(n, chrRange, resolution)
  /\ \A i \in 1..Len(n.values) :
       n.values[i].tag = "Node" => ShortCircuitsBeneath(n.values[i])

RECURSIVE GapBuckets(_, _, _)
\* the buckets, as [start, end], for which getUncachedRange(chrRange) at
\* resolution appends or extends a range
GapBuckets(n, chrRange, resolution) ==
  UNION { IF Truthy(n.values[i]) /\ ~ChildResolutionEnough(n, resolution, i)
          THEN GapBuckets(n.values[i], chrRange, resolution)
          ELSE IF ~ChildHasData(n, i)
          THEN {[start |-> n.keys[i], end |-> n.keys[i + 1]]}
          ELSE {} :
          i \in { j \in 1..Len(n.values) :
                    n.keys[j + 1] > chrRange.start /\ n.keys[j] < chrRange.end } }

Within(S, R) == R.start <= S.start /\ S.end <= R.end

\* C6: for every range R and resolution r (bufferingRatio 1, fresh result
\* list) hasUncachedRange(R, r) is true iff getUncachedRange(R, r) is not
\* empty, and for every sub-range S of R hasUncachedRange(S, r) is true
\* exactly when S intersects a bucket getUncachedRange reported a gap for.
C6_HasIffGet ==
  \A R \in Ranges, r \in Resolutions :
    /\ HasUncachedRange(root, R, r) <=> GetUncachedRange(root, R, r, 1, <<>>) # <<>>
    /\ \A gaps \in {GapBuckets(root, R, r)} :
         \A S \in Ranges :
           Within(S, R) =>
             ( HasUncachedRange(root, S, r) <=>
                 \E g \in gaps : g.start < S.end /\ g.end > S.start )

\* after two operations the root range has gaps at resolution 1, reported
\* from inside a child, and a sub-range of it has none
C6_Witness ==
  /\ nops = 2
  /\ \E i \in 1..Len(root.values) :
       /\ root.values[i].tag = "Node"
       /\ GapBuckets(root.values[i], [start |-> tree.start, end |-> tree.end], 1) # {}
  /\ HasUncachedRange(root, [start |-> tree.start, end |-> tree.end], 1)
  /\ \E S \in Ranges : ~HasUncachedRange(root, S, 1)

\* the buffering ratios of the queries explored
BufferingRatios == {1, 2}

\* a result list is ordered by start, its ranges are non-empty and disjoint,
\* and no two neighbours are contiguous with the same resolution
WellFormedResult(result) ==
  /\ \A k \in 1..Len(result) : result[k].start < result[k].end
  /\ \A k \in 1..Len(result) - 1 :
       /\ result[k].start < result[k + 1].start
       /\ result[k].end <= result[k + 1].start
       /\ ~( result[k].end = result[k + 1].start
             /\ result[k].resolution = result[k + 1].resolution )

\* C7: for every query (range, resolution, bufferingRatio >= 1) with an
\* empty result list, what getUncachedRange returns is ordered by start, its
\* ranges are non-empty and pairwise disjoint, and no two consecutive ranges
\* are contiguous and tagged with the same resolution.
C7_ResultWellFormed ==
  \A R \in Ranges, r \in Resolutions, b \in BufferingRatios :
    \A result \in {GetUncachedRange(root, R, r, b, <<>>)} :
      WellFormedResult(result)

\* one query returns two separate ranges, and one returns fewer ranges
\* than there are gap buckets, two of them having been merged
C7_Witness ==
  /\ \E R \in Ranges, r \in Resolutions, b \in BufferingRatios :
       Len(GetUncachedRange(root, R, r, b, <<>>)) >= 2
  /\ \E R \in Ranges, r \in Resolutions :
       /\ GetUncachedRange(root, R, r, 1, <<>>) # <<>>
       /\ Cardinality(GapBuckets(root, R, r))
            > Len(GetUncachedRange(root, R, r, 1, <<>>))

RECURSIVE GapRanges(_, _, _, _)
\* for every bucket getUncachedRange(chrRange) reports a gap for, the bucket
\* and the range computed for it
GapRanges(n, chrRange, resolution, bufferingRatio) ==
  UNION { IF Truthy(n.values[i]) /\ ~ChildResolutionEnough(n, resolution, i)
          THEN GapRanges(n.values[i], chrRange, resolution, bufferingRatio)
          ELSE IF ~ChildHasData(n, i)
          THEN {[bucket |-> [start |-> n.keys[i], end |-> n.keys[i + 1]],
                 start |-> RetrieveStart(n, i, chrRange,
                             GetClosestResolution(resolution, bufferingRatio)),
                 end |-> RetrieveEnd(n, i, chrRange,
                           GetClosestResolution(resolution, bufferingRatio)),
                 resolution |-> GetClosestResolution(resolution, bufferingRatio)]}
          ELSE {} :
          i \in { j \in 1..Len(n.values) :
                    n.keys[j + 1] > chrRange.start /\ n.keys[j] < chrRange.end } }

\* C8: every range getUncachedRange(chrRange) appends lies in the bucket it
\* was computed for and in chrRange itself, at every resolution.
C8_WithinBucketAndRange ==
  \A R \in Ranges, r \in Resolutions, b \in BufferingRatios :
    \A g \in GapRanges(root, R, r, b) :
      /\ Within(g, g.bucket)
      /\ Within(g, R)

\* C8 (amended): every range getUncachedRange(chrRange) appends lies in the
\* bucket it was computed for and in chrRange widened outwards to the grid
\* of the tagged resolution; it covers the part of chrRange in that bucket,
\* and every entry of the result starts and ends where such a range does.
C8_WithinBucketAndGrid ==
  \A R \in Ranges, r \in Resolutions, b \in BufferingRatios :
    \A ranges \in {GapRanges(root, R, r, b)} :
      /\ \A g \in ranges :
           /\ Within(g, g.bucket)
           /\ FitFloor(R.start, g.resolution) <= g.start
           /\ g.end <= FitCeil(R.end, g.resolution)
           /\ g.start <= Max2(R.start, g.bucket.start)
           /\ g.end >= Min2(R.end, g.bucket.end)
           /\ g.resolution = 1 => Within(g, R)
      /\ \A result \in {GetUncachedRange(root, R, r, b, <<>>)} :
           \A k \in 1..Len(result) :
             /\ \E g \in ranges : g.start = result[k].start
             /\ \E g \in ranges : g.end = result[k].end

\* a query whose range starts off the grid is answered with a range that
\* starts before it, and one that ends off the grid with a range ending
\* after it
C8_Witness ==
  /\ \E R \in Ranges, r \in Resolutions :
       \E g \in GapRanges(root, R, r, 1) : g.start < R.start
  /\ \E R \in Ranges, r \in Resolutions :
       \E g \in GapRanges(root, R, r, 1) : g.end > R.end
  /\ nops > 0

\* the largest resolution of the ladder that is <= r / b, or 1 when r / b
\* is below leafScalingFactor
LadderBelow(r, b) ==
  LET fits == { q \in { GetResolutionAtDepth(k) : k \in 0..root.reverseDepth + 1 } :
                  q * b <= r }
  IN IF fits = {} THEN 1 ELSE CHOOSE q \in fits : \A p \in fits : p <= q

\* every coordinate of R lies in one of gaps, the buckets that a walk finds
\* to be gaps
WhollyUncached(gaps, R) ==
  \A x \in R.start..R.end - 1 : \E g \in gaps : g.start <= x /\ x < g.end

\* result, the answer over a wholly uncached region R, is one range tagged
\* with the resolution of the ladder closest to r / b, covering R, its start
\* and end each a multiple of the tag or a boundary of a gap bucket
SingleGridRange(result, gaps, R, r, b) ==
  /\ Len(result) = 1
  /\ result[1].resolution = LadderBelow(r, b)
  /\ result[1].start <= R.start /\ R.end <= result[1].end
  /\ \/ result[1].start % result[1].resolution = 0
     \/ \E g \in gaps : g.start = result[1].start
  /\ \/ result[1].end % result[1].resolution = 0
     \/ \E g \in gaps : g.end = result[1].end

\* C9: over a wholly uncached region a query at resolution r with buffering
\* ratio b is answered with one range tagged closestResolution(r / b) on
\* that grid or on bucket boundaries, and r / b is the resolution that
\* decides which buckets are walked into, in getUncachedRange and in
\* hasUncachedRange.
C9_WalkAtEffectiveResolution ==
  \A R \in Ranges, r \in Resolutions, b \in BufferingRatios :
    r % b = 0 =>
      /\ WhollyUncached(GapBuckets(root, R, r \div b), R) =>
           SingleGridRange(GetUncachedRange(root, R, r, b, <<>>),
                           GapBuckets(root, R, r \div b), R, r, b)
      /\ { g.bucket : g \in GapRanges(root, R, r, b) }
           = GapBuckets(root, R, r \div b)
      /\ HasUncachedRange(root, R, r) <=> GapBuckets(root, R, r \div b) # {}

\* a result list cut down to R
ClippedTo(result, R) ==
  [k \in 1..Len(result) |->
     [start |-> Max2(result[k].start, R.start), end |-> Min2(result[k].end, R.end)]]

\* C9 (amended): over a region that is wholly uncached at resolution r the
\* answer is one range tagged closestResolution(r / b) on that grid or on
\* bucket boundaries; the buckets walked into are decided by r itself, so
\* the buffering ratio changes the tag and the grid of the answer and not
\* where its gaps are, and hasUncachedRange does not depend on it.
C9_BufferingOnlyTags ==
  \A R \in Ranges, r \in Resolutions :
    \A gaps \in {GapBuckets(root, R, r)},
       unbuffered \in {ClippedTo(GetUncachedRange(root, R, r, 1, <<>>), R)},
       has \in {HasUncachedRange(root, R, r)} :
      \A b \in BufferingRatios :
        \A result \in {GetUncachedRange(root, R, r, b, <<>>)} :
          /\ WhollyUncached(gaps, R) => SingleGridRange(result, gaps, R, r, b)
          /\ \A k \in 1..Len(result) : result[k].resolution = LadderBelow(r, b)
          /\ ClippedTo(result, R) = unbuffered
          /\ has <=> result # <<>>

\* a node of resolution 2 with a summary above an Unknown bucket: at
\* resolution 2 with buffering ratio 2 nothing is reported for it, at
\* resolution 1 its bucket is; and a wholly uncached range is answered with
\* a tag finer than the resolution asked for
C9_Witness ==
  /\ \E R \in Ranges :
       /\ GetUncachedRange(root, R, 2, 2, <<>>) = <<>>
       /\ GetUncachedRange(root, R, 1, 1, <<>>) # <<>>
  /\ \E R \in Ranges :
       /\ WhollyUncached(GapBuckets(root, R, 2), R)
       /\ GetUncachedRange(root, R, 2, 2, <<>>)
            = <<[start |-> R.start, end |-> R.end, resolution |-> 1]>>

RECURSIVE BucketAt(_, _)
\* the node of the deepest tier whose range holds coordinate x, and the
\* index of its bucket that holds x
BucketAt(n, x) ==
  LET i == CHOOSE j \in 1..Len(n.values) : n.keys[j] <= x /\ x < n.keys[j + 1]
  IN IF n.values[i].tag = "Node" THEN BucketAt(n.values[i], x)
     ELSE [node |-> n, index |-> i]

\* no two neighbouring buckets of n are both KnownEmpty
NoKnownEmptyPair(n) ==
  \A i \in 1..Len(n.values) - 1 :
    ~(n.values[i] = KnownEmpty /\ n.values[i + 1] = KnownEmpty)

\* the entry of the last call was inserted and then removed by exact match
RemovedExactly == last.op = "remove" /\ last.exactMatch

\* no traverse at resolution 1 over a range containing the entry emits it
NotEmitted(E) ==
  \A R \in Ranges :
    (R.start <= E.start /\ E.end <= R.end) =>
      \A k \in 1..Len(Traverse(root, R, 1, FALSE).out) :
        ~Emits(Traverse(root, R, 1, FALSE).out[k], E)

\* C10: after an entry has been inserted and then removed with
\* remove(entry, exactMatch = true, collapseFill), no traverse at resolution 1
\* over a range containing it emits it, the vacated bucket holds KnownEmpty,
\* and no two neighbouring buckets of its node are both KnownEmpty.
C10_RemovedLeavesKnownEmpty ==
  RemovedExactly =>
    LET b == BucketAt(root, last.data[1].start) IN
      /\ NotEmitted(last.data[1])
      /\ b.node.values[b.index] = KnownEmpty
      /\ NoKnownEmptyPair(b.node)

\* C10 (amended): after an entry has been inserted and then removed with
\* remove(entry, exactMatch = true, collapseFill), no traverse at resolution 1
\* over a range containing it emits it, and the vacated bucket holds
\* collapseFill: Unknown for null, KnownEmpty for false, and then coalesced
\* so that no two neighbouring buckets of its node are both KnownEmpty.
C10_RemovedLeavesFill ==
  RemovedExactly =>
    LET b == BucketAt(root, last.data[1].start) IN
      /\ NotEmitted(last.data[1])
      /\ b.node.values[b.index] = last.convertTo
      /\ last.convertTo = KnownEmpty => NoKnownEmptyPair(b.node)

\* an entry stored in a leaf next to a KnownEmpty bucket has been removed
\* with collapseFill false, and its bucket is now part of a wider KnownEmpty
\* bucket
C10_Witness ==
  /\ RemovedExactly /\ last.convertTo = KnownEmpty
  /\ tree.leafScalingFactor > 1
  /\ last.range.start <= last.data[1].start /\ last.data[1].end < last.range.end
  /\ LET b == BucketAt(root, last.data[1].start) IN
       /\ b.node.values[b.index] = KnownEmpty
       /\ b.node.keys[b.index] <= last.range.start
       /\ b.node.keys[b.index + 1] >= last.range.end

RECURSIVE StartLists(_)
\* the start lists of the leaves beneath n, left to right
StartLists(v) ==
  CASE v.tag = "Leaf" -> v.startList
    [] v.tag = "Node" ->
         LET RECURSIVE Cat(_)
             Cat(i) == IF i > Len(v.values) THEN <<>>
                       ELSE StartLists(v.values[i]) \o Cat(i + 1)
         IN Cat(1)
    [] OTHER -> <<>>

\* how many times entry e is stored in the leaves beneath n
Copies(n, e) ==
  Cardinality({ k \in 1..Len(StartLists(n)) : StartLists(n)[k] = e })

\* every entry of the last call that starts inside its range is stored in
\* the leaves once
StoredOnce(n) ==
  \A k \in 1..Len(last.data) :
    ( /\ last.range.start <= last.data[k].start
      /\ last.data[k].start < last.range.end ) => Copies(n, last.data[k]) = 1

MismatchAtRoot(n, call) ==
  LET data == DropStartsBefore(call.data, Start(n)) IN
    /\ call.op = "insert"
    /\ ResolutionEnough(n, call.resolution)
    /\ data # <<>>
    /\ (Start(n) # data[1].start \/ End(n) # data[1].end)
    /\ data[1].start < End(n)

\* C12: an insert that reaches a node whose resolution is enough with a first
\* remaining entry that is not the node's range but starts before the node's
\* end raises a fatal error, whether or not the node has a summary.
C12_MismatchIsFatal ==
  [][ MismatchAtRoot(root, last') => last'.err ]_vars

Overlaps(e, r) == e.start < r.end /\ e.end > r.start

\* the entries of data that start at or after the end of r, in order
StartingAfter(data, r) == SelectSeq(data, LAMBDA e : e.start >= r.end)

\* C13: after insert(data, chrRange) has returned normally, the caller's
\* array holds no entry that overlaps chrRange, and the entries that start
\* at or after chrRange.end are all still in it, in their original order.
C13_OverlappingConsumed ==
  (last.op = "insert" /\ ~last.err) =>
    /\ \A k \in 1..Len(last.dataLeft) : ~Overlaps(last.dataLeft[k], last.range)
    /\ StartingAfter(last.dataLeft, last.range)
         = StartingAfter(last.data, last.range)

\* C14: in every state reachable by inserts and removals every node has
\* strictly increasing keys that begin at the node's start and end at the
\* node's end, and one bucket fewer than it has keys.
C14_ShellShape == ShellSound(root, tree.start, tree.end)

\* the resolutions of the tiers that are at most r
TiersUpTo(r) ==
  { GetResolutionAtDepth(k) : k \in 0..r } \cap (tree.leafScalingFactor..r)

\* C15: for a requested resolution r >= leafScalingFactor,
\* closestResolution(r) is the largest floor(L * S^k) that is <= r; for
\* r < leafScalingFactor it is 1.
C15_ClosestIsLargestTier ==
  last.op = "closestResolution" =>
    IF last.resolution < tree.leafScalingFactor THEN last.value = 1
    ELSE /\ last.value \in TiersUpTo(last.resolution)
         /\ \A t \in TiersUpTo(last.resolution) : t <= last.value

\* C16: resolutionAt(d + 1) > resolutionAt(d) for every d >= 0, on every
\* handle with scalingFactor > 1 and leafScalingFactor >= 1.
C16_StrictlyIncreasing ==
  last.op = "resolutionAtDepth" => last.value > last.resolution

\* C16 as amended: resolutionAt is non-decreasing in d, and strictly
\* increasing on the handles with leafScalingFactor * (scalingFactor - 1) >= 1,
\* which include every integer scaling factor.
C16_IncreasingWhenWide ==
  last.op = "resolutionAtDepth" =>
    /\ last.value >= last.resolution
    /\ (tree.leafScalingFactor * (tree.sfNum - tree.sfDen) >= tree.sfDen)
         => last.value > last.resolution

\* two tiers of a handle with scaling factor 3/2 have been compared and the
\* deeper one is the coarser
C16_Witness ==
  /\ last.op = "resolutionAtDepth"
  /\ tree.sfDen = 2 /\ tree.leafScalingFactor = 2
  /\ last.range.start = 1
  /\ last.resolution = 3 /\ last.value = 4

\* C17: fitResolution(value, resolution) without a rounding function returns
\* the largest multiple of resolution that is <= value.
C17_DefaultIsFloor ==
  last.op = "fitResolution" =>
    /\ last.value <= last.range.start
    /\ last.range.start < last.value + last.resolution
    /\ last.value % last.resolution = 0

\* buffering ratios below 1
InvalidRatios == {-1, 0}

\* C18: getUncachedRange with a bufferingRatio below 1 (0 and negative
\* values included) returns the list it returns for bufferingRatio = 1 on the
\* same tree, range and resolution.
C18_InvalidRatioIsOne ==
  \A R \in Ranges, r \in Resolutions :
    \A atOne \in {GetUncachedRange(root, R, r, 1, <<>>)} :
      \A b \in InvalidRatios : GetUncachedRange(root, R, r, b, <<>>) = atOne

\* after an insert, a query with ratio 0 returns two gaps, tagged with a
\* resolution that a ratio of 2 would have made finer
C18_Witness ==
  \E R \in Ranges, r \in Resolutions :
    /\ last.op = "insert" /\ ~last.err
    /\ Len(GetUncachedRange(root, R, r, 0, <<>>)) >= 2
    /\ GetUncachedRange(root, R, r, 0, <<>>) # GetUncachedRange(root, R, r, 2, <<>>)

\* the recomputation of the summary of n aborts: a bucket of n is Unknown,
\* or a child without a summary
Aborts(n) == ~FoldValues(n, 1, <<>>).ok

\* C19: updateSummary() without an aggregate, on a node with an Unknown
\* bucket or a child without summary, leaves the summary absent, also when
\* the node held a summary before: the summary and its wrapper are discarded.
C19_StaleDiscarded ==
  [][ (last'.op = "updateSummary" /\ Aborts(root)) =>
        (~HasData(root') /\ root'.wrapper = NoWrapper) ]_vars

\* C19 as amended: on such a node updateSummary() leaves the summary absent
\* and no wrapper when the node had no summary, and leaves the node as it
\* was, summary and wrapper kept, when it had one.
C19_KeptOrAbsent ==
  [][ (last'.op = "updateSummary" /\ Aborts(root)) =>
        IF HasData(root) THEN root' = root
        ELSE /\ ~HasData(root') /\ root'.wrapper = NoWrapper
             /\ root'.keys = root.keys /\ root'.values = root.values ]_vars

\* updateSummary() has run on a root that holds a summary and has a bucket
\* that is Unknown or a child without data
C19_Witness ==
  /\ last.op = "updateSummary"
  /\ HasData(root) /\ Aborts(root)
  /\ \E i \in 1..Len(root.values) : Truthy(root.values[i])

\* the child windows of the root that the range R touches
Windows(R) ==
  { W \in { [start |-> k * GetChildResolution(root),
             end |-> Min2((k + 1) * GetChildResolution(root), End(root))] :
              k \in 0..(End(root) \div GetChildResolution(root)) } :
      W.start < W.end /\ W.start < R.end /\ W.end > R.start }

\* the window is to be recursed into: an entry of the data starts before its
\* end and reaches into it (as the next queued entry or from the
\* continuation list), or R covers it only partly
WindowLive(W, data, R) ==
  \/ \E k \in 1..Len(data) : data[k].start < W.end /\ data[k].end > W.start
  \/ R.start > W.start \/ R.end < W.end

\* the index of the bucket of the root that holds coordinate x
RootIndex(x) ==
  CHOOSE j \in 1..Len(root.values) : root.keys[j] <= x /\ x < root.keys[j + 1]

\* C20: in the non-leaf fan-out of an insert at resolution 1, a window that
\* is fully covered and has neither data nor continuation is KnownEmpty
\* afterwards, whatever the bucket held before; every other window has been
\* recursed into and holds a child node over exactly the window, unless the
\* child of an earlier operation came back empty and was collapsed; and
\* every window the range touches has been dealt with.
C20_FanOutLiveness ==
  ( /\ last.op = "insert" /\ ~last.err
    /\ last.resolution = 1 /\ tree.leafScalingFactor > 1 ) =>
    \A W \in Windows(last.range) :
      \A j \in {RootIndex(W.start)} :
        IF WindowLive(W, last.data, last.range)
        THEN \/ /\ root.values[j].tag = "Node"
                /\ root.keys[j] = W.start /\ root.keys[j + 1] = W.end
             \/ nops > 1 /\ root.values[j] = KnownEmpty
        ELSE root.values[j] = KnownEmpty

\* a second operation has left one window of the root collapsed and
\* another one with the child that was recursed into
C20_Witness ==
  /\ last.op = "insert" /\ ~last.err /\ nops = 2
  /\ last.resolution = 1 /\ tree.leafScalingFactor > 1
  /\ \E W \in Windows(last.range) :
       /\ ~WindowLive(W, last.data, last.range)
       /\ root.values[RootIndex(W.start)] = KnownEmpty
  /\ \E W \in Windows(last.range) :
       /\ WindowLive(W, last.data, last.range)
       /\ root.values[RootIndex(W.start)].tag = "Node"

\* the bucket of the deepest tier that holds coordinate x: its range and
\* its value
CellStart(x) == BucketAt(root, x).node.keys[BucketAt(root, x).index]

CellEnd(x) == BucketAt(root, x).node.keys[BucketAt(root, x).index + 1]

CellValue(x) == BucketAt(root, x).node.values[BucketAt(root, x).index]

Holds(list, e) == \E k \in 1..Len(list) : list[k] = e

\* C21: after the insert of one entry E over a range R that contains E,
\* every cell of the finest tier inside R that E overlaps holds a leaf, with
\* E in its start list where E starts and in its carry-over list further
\* on, and every cell of R that E does not overlap is KnownEmpty.
C21_CellsOfEntry ==
  ( /\ last.op = "insert" /\ ~last.err /\ last.resolution = 1
    /\ Len(last.data) = 1
    /\ last.range.start <= last.data[1].start
    /\ last.data[1].end <= last.range.end ) =>
    \A x \in last.range.start..last.range.end - 1 :
      IF last.data[1].start < CellEnd(x) /\ last.data[1].end > CellStart(x)
      THEN /\ CellValue(x).tag = "Leaf"
           /\ IF CellStart(x) <= last.data[1].start
              THEN /\ CellValue(x).start = last.data[1].start
                   /\ Holds(CellValue(x).startList, last.data[1])
              ELSE Holds(CellValue(x).continuedList, last.data[1])
      ELSE CellValue(x) = KnownEmpty

RECURSIVE CachedSummaries(_)
\* for every node beneath v (v included): its range, its tier, its summary
\* and the wrapper a traverse emits for it
CachedSummaries(v) ==
  IF v.tag # "Node" THEN {}
  ELSE { [start |-> Start(v), end |-> End(v), reverseDepth |-> v.reverseDepth,
          summary |-> v.summary, wrapper |-> v.wrapper] }
       \cup UNION { CachedSummaries(v.values[i]) : i \in 1..Len(v.values) }

\* the nodes with a summary whose range holds the range of the target,
\* without being it
Ancestors(n, target) ==
  { c \in CachedSummaries(n) :
      /\ c.summary.present
      /\ c.start <= target.start /\ target.end <= c.end
      /\ ~(c.start = target.start /\ c.end = target.end) }

\* C22: after a remove every ancestor of the target that had a summary
\* still has the same summary, and a traverse at its resolution still emits
\* it.
C22_AncestorsKeepSummary ==
  [][ last'.op = "remove" =>
        \A c \in Ancestors(root, last'.data[1]) :
          /\ c \in CachedSummaries(root')
          /\ Traverse(root', [start |-> c.start, end |-> c.end],
                      GetResolutionAtDepth(c.reverseDepth), FALSE).out
               = <<c.wrapper>> ]_vars

\* C22 as amended: remove recomputes no summary.  Every node that is in the
\* tree after the call has the summary and the wrapper it had before, the
\* root among them, and a traverse at the root's resolution still emits the
\* summary the root had; an ancestor that is left with a single Unknown or
\* KnownEmpty bucket is taken out of the tree with its summary.
C22_RemainingKeepSummary ==
  [][ last'.op = "remove" =>
        /\ CachedSummaries(root') \subseteq CachedSummaries(root)
        /\ root'.summary = root.summary /\ root'.wrapper = root.wrapper
        /\ HasData(root) =>
             Traverse(root', [start |-> tree.start, end |-> tree.end],
                      Resolution(root), FALSE).out = <<root.wrapper>> ]_vars

\* an entry has been removed from a leaf beneath a root that keeps a
\* summary holding that entry
C22_Witness ==
  /\ last.op = "remove" /\ nops = 2
  /\ HasData(root) /\ root.wrapper.kind = "node"
  /\ Holds(root.summary.items, last.data[1])
  /\ \A x \in tree.start..tree.end - 1 : CellValue(x).tag # "Leaf"

\* ---------------------------------------------------------------------------
\* Removal of a target that is not in the tree
\* ---------------------------------------------------------------------------

RECURSIVE TargetAbsent(_, _)
\* The walk of remove from node n never meets a node whose range is the
\* target's and ends at a bucket that is Unknown or KnownEmpty.
TargetAbsent(n, t) ==
  /\ ~(Start(n) = t.start /\ End(n) = t.end)
  /\ LET i == LocateChild(n, 1, t.start) IN
       /\ i <= Len(n.values)
       /\ IF n.values[i].tag = "Node" THEN TargetAbsent(n.values[i], t)
          ELSE ~Truthy(n.values[i])

\* C23: a remove whose target start falls in a bucket that is Unknown or
\* KnownEmpty (at a node whose range is not the target's) changes no key, no
\* value and no summary of any node of the tree, and raises no error.
C23_AbsentTargetNoChange ==
  [][ (last'.op = "remove" /\ TargetAbsent(root, last'.data[1])) =>
        (root' = root /\ ~last'.err) ]_vars

\* ---------------------------------------------------------------------------
\* What remove returns, and what the parent does with it
\* ---------------------------------------------------------------------------

\* the node's range is the target's, and the payload is not asked for or is
\* equal
IsTarget(n, t, exactMatch) ==
  /\ Start(n) = t.start /\ End(n) = t.end
  /\ (~exactMatch \/ CompareData(t, n))

\* the node has more than one bucket, or a first bucket that is neither
\* Unknown nor KnownEmpty
Substantial(n) == Len(n.values) > 1 \/ Truthy(n.values[1])

\* the bucket of the root that covers x
RootBucket(r, x) == r.values[LocateChild(r, 1, x)]

\* what a remove at the root has to leave behind where the child c of the
\* root's bucket i was
ChildOutcome(r, c, i, t, exactMatch, convertTo) ==
  IF IsTarget(c, t, exactMatch)
  THEN RootBucket(r, t.start) = convertTo
  ELSE \A res \in {Remove(c, t, exactMatch, convertTo)} :
         /\ res.ret = Substantial(res.node)
         /\ IF res.ret
            THEN i <= Len(r.values) /\ r.values[i] = res.node
            ELSE RootBucket(r, t.start) = convertTo

\* C24: a remove that reaches a node whose range is the target's (exactMatch
\* false, or the payload equal) clears it to collapseFill and returns true
\* exactly when the node is the root; any other remove returns the node when
\* it has more than one bucket or a first bucket that is neither Unknown nor
\* KnownEmpty and false otherwise, and the parent of a node that returned
\* false puts collapseFill where the node was.
C24_RemoveReturn ==
  [][ last'.op = "remove" =>
        \A t \in {last'.data[1]} :
          IF IsTarget(root, t, last'.exactMatch)
          THEN /\ last'.ret = TRUE
               /\ root'.keys = <<tree.start, tree.end>>
               /\ root'.values = <<last'.convertTo>>
          ELSE /\ last'.ret = Substantial(root')
               /\ \A i \in {LocateChild(root, 1, t.start)} :
                    (i <= Len(root.values) /\ root.values[i].tag = "Node") =>
                      ChildOutcome(root', root.values[i], i, t,
                                   last'.exactMatch, last'.convertTo) ]_vars

\* a remove of the whole range of the tree, payload not asked for, has
\* cleared a root that had been written to and has returned true
C24_Witness ==
  /\ last.op = "remove" /\ nops = 2
  /\ last.range = [start |-> tree.start, end |-> tree.end]
  /\ ~last.exactMatch /\ last.convertTo = KnownEmpty
  /\ last.ret = TRUE
  /\ root.values = <<KnownEmpty>>
  /\ HasData(root)

(***************************************************************************)
(* The non-leaf fan-out of root.insert one pass of its while loop at a     *)
(* time.  While the loop runs last.op is "pass", root is the node as the   *)
(* passes so far left it, last.range is chrRange, last.dataLeft is data,   *)
(* last.continuedList is props.continuedList and last.value is currIndex.  *)
(***************************************************************************)
PassConfigs ==
  { [sfNum |-> 2, sfDen |-> 1, leafScalingFactor |-> 2, start |-> 0, end |-> 4,
     extractBare |-> TRUE],
    [sfNum |-> 3, sfDen |-> 1, leafScalingFactor |-> 2, start |-> 0, end |-> 6,
     extractBare |-> TRUE],
    [sfNum |-> 2, sfDen |-> 1, leafScalingFactor |-> 1, start |-> 0, end |-> 4,
     extractBare |-> TRUE] }

InitPass ==
  /\ tree \in PassConfigs
  /\ root = NewPineNode(tree.start, tree.end, TRUE)
  /\ last = NoCall
  /\ nops = 0

\* insert up to the while loop of _addNonLeafRecords (lines 343-430)
BeginFanOutOp ==
  /\ nops < MaxOps /\ last.op # "pass"
  /\ \E chrRange \in Ranges, resolution \in Resolutions :
       /\ ~ResolutionEnough(root, resolution)
       /\ root.reverseDepth > 0
       /\ \E data \in DataLists(chrRange, resolution, MaxData) :
            last' = [NoCall EXCEPT !.op = "pass", !.data = data,
                       !.range = TruncateChrRange(root, chrRange),
                       !.resolution = resolution, !.dataLeft = data,
                       !.value = 1]
  /\ UNCHANGED <<root, tree, nops>>

\* the state of the loop
LoopState ==
  [node |-> root, data |-> last.dataLeft, chrRange |-> last.range,
   childRange |-> last.range, continuedList |-> last.continuedList,
   currIndex |-> last.value, err |-> last.err]

\* one pass of the while loop (lines 430-504)
PassOp ==
  /\ last.op = "pass" /\ ~last.err
  /\ last.range.start < last.range.end
  /\ \E windowed \in {NonLeafWindow(LoopState)} :
     \E split \in {NonLeafSplitEnd(NonLeafSplitStart(windowed))} :
     \E filled \in {NonLeafFill(split, last.resolution)} :
     \E st \in {NonLeafAdvance(filled)} :
       /\ root' = st.node
       /\ last' = [last EXCEPT !.range = st.chrRange, !.dataLeft = st.data,
                               !.continuedList = st.continuedList,
                               !.value = st.currIndex, !.err = st.err]
  /\ UNCHANGED <<tree, nops>>

\* the loop is left: updateSummary() and restructure() (lines 399-404), or
\* the Error of a child on its way out
EndFanOutOp ==
  /\ last.op = "pass"
  /\ last.err \/ ~(last.range.start < last.range.end)
  /\ \E res \in {InsertAfterFanOut(LoopState)} :
       /\ root' = res.node
       /\ last' = [last EXCEPT !.op = "insert", !.err = res.err,
                               !.ret = res.ret, !.dataLeft = res.data,
                               !.continuedList = res.continuedList,
                               !.value = 0]
  /\ nops' = nops + 1
  /\ UNCHANGED tree

NextPass == BeginFanOutOp \/ PassOp \/ EndFanOutOp

SpecPass == InitPass /\ [][NextPass]_vars

\* insert is synchronous: a loop that was entered goes on.  This is weak
\* fairness of PassOp \/ EndFanOutOp, written out with the state predicate
\* that says when one of the two is enabled: while last.op is "pass" exactly
\* one of their guards holds.
LoopGoesOn ==
  []<>(last.op # "pass") \/ []<><<PassOp \/ EndFanOutOp>>_vars

SpecPassFair == SpecPass /\ LoopGoesOn

RECURSIVE Height(_)
\* the number of nested insert calls that reach into v: 0 for a sentinel,
\* 1 for a leaf
Height(v) ==
  CASE v.tag = "Leaf" -> 1
    [] v.tag = "Node" ->
         1 + Max2(0, CHOOSE h \in { Height(v.values[k]) : k \in 1..Len(v.values) } :
                       \A k \in 1..Len(v.values) : Height(v.values[k]) <= h)
    [] OTHER -> 0

RECURSIVE TiersDescend(_)
\* every node below v has a smaller reverseDepth than its parent
TiersDescend(v) ==
  v.tag = "Node" =>
    \A k \in 1..Len(v.values) :
      /\ v.values[k].tag = "Node" => v.values[k].reverseDepth < v.reverseDepth
      /\ TiersDescend(v.values[k])

OffsetConfigs ==
  { [sfNum |-> 2, sfDen |-> 1, leafScalingFactor |-> 2, start |-> 1, end |-> 5,
     extractBare |-> TRUE],
    [sfNum |-> 3, sfDen |-> 1, leafScalingFactor |-> 2, start |-> 1, end |-> 6,
     extractBare |-> TRUE] }

InitOffset ==
  /\ tree \in OffsetConfigs
  /\ root = NewPineNode(tree.start, tree.end, TRUE)
  /\ last = NoCall
  /\ nops = 0

SpecOffset == InitOffset /\ [][NextFresh]_vars

RECURSIVE ChildrenFit(_)
\* every node in a bucket of v, at any depth, has the bucket's keys as its
\* own first and last key, inside the range of its parent
ChildrenFit(v) ==
  v.tag = "Node" =>
    \A i \in 1..Len(v.values) :
      /\ v.values[i].tag = "Node" =>
           /\ i + 1 <= Len(v.keys)
           /\ Start(v.values[i]) = v.keys[i]
           /\ End(v.values[i]) = v.keys[i + 1]
           /\ Start(v) <= Start(v.values[i])
           /\ End(v.values[i]) <= End(v)
      /\ ChildrenFit(v.values[i])

\* C26: every child node that insert has made lies inside its parent and has
\* the keys of its bucket as its range, also under a parent whose start is
\* not a multiple of the child resolution.
C26_ChildMatchesBucket == ChildrenFit(root)

RECURSIVE TiersStepByOne(_)
\* every node in a bucket of v, at any depth, is one tier below its parent
TiersStepByOne(v) ==
  v.tag = "Node" =>
    \A i \in 1..Len(v.values) :
      /\ v.values[i].tag = "Node" =>
           /\ v.reverseDepth > 0
           /\ v.values[i].reverseDepth = v.reverseDepth - 1
           /\ Resolution(v.values[i]) = GetResolutionAtDepth(v.reverseDepth - 1)
      /\ TiersStepByOne(v.values[i])

\* C27: every child node that insert has made under a node of reverseDepth
\* d > 0 has reverseDepth d - 1, and so the resolution of tier d - 1, also in
\* a last window that the parent's end cuts short.
C27_ChildOneTierBelow == TiersStepByOne(root)

(***************************************************************************)
(* A single insert at resolution 1 into a fresh tree of one raw entry that *)
(* may reach over several cells, so that it can start before the range and *)
(* end after it.                                                           *)
(***************************************************************************)
MaxLongLen == 3

LongEntries ==
  { [start |-> r.start, end |-> r.end, sum |-> FALSE] :
      r \in { x \in Ranges : x.end - x.start <= MaxLongLen } }

LongInsertOp ==
  /\ nops = 0
  /\ \E chrRange \in Ranges :
       \E E \in { e \in LongEntries : e.end > chrRange.start } :
         DoInsert(<<E>>, chrRange, 1)

NextLong == LongInsertOp

SpecLong == InitFresh /\ [][NextLong]_vars

\* how many times entry e is in the list
Times(list, e) == Cardinality({ k \in 1..Len(list) : list[k] = e })

\* C28: when the leaf fan-out of an insert over [a,b) has finished, the
\* continuation list holds the entries of the call that start before b and
\* end after b, each of them once, and nothing else.
C28_ContinuationExact ==
  ( /\ last.op = "insert" /\ ~last.err /\ last.resolution = 1
    /\ tree.leafScalingFactor > 1 ) =>
      /\ \A k \in 1..Len(last.continuedList) :
           /\ last.continuedList[k].end > last.range.end
           /\ Holds(last.data, last.continuedList[k])
      /\ \A k \in 1..Len(last.data) :
           ( /\ last.data[k].start < last.range.end
             /\ last.data[k].end > last.range.end ) =>
               Times(last.continuedList, last.data[k]) = 1

====
